---- MODULE Spec2Model ----
(***************************************************************************)
(* Forward passes of torch-uniAD's TrackFormer, MapFormer and OccFormer    *)
(* (src/modules/trackformer.py, mapformer.py, occformer.py).               *)
(*                                                                         *)
(* Representation.  An embedding vector is a token: track query j of batch *)
(* element i is the integer 10*i + j, row j of the detection positional    *)
(* embedding is -j, and the zero vector F.pad writes is 0.  A tensor of    *)
(* the TrackFormer is a record [data, shape, ops]: data holds the tokens   *)
(* of the query set it was computed from, shape its torch shape, and ops   *)
(* the sequence of learned modules applied to it (decoder layers, the      *)
(* detection head), which are uninterpreted.  The tensors of the OccFormer *)
(* are represented by their shapes.  Optional values are sequences of      *)
(* length 0 (None) or 1.                                                   *)
(***************************************************************************)
EXTENDS Integers, Sequences, FiniteSets, TLC

\* ---------------------------------------------------------------- bounds
MaxTracks == 3
MaxDet == 2
MaxLayers == 3
EmbedDim == 2
MaxBevSide == 2
MaxSegCoeffs == 2
OccMaxBatch == 2
MaxAgents == 2
MaxModes == 2
MaxGrid == 4
MaxScale == 2
MaxHorizon == 2

\* ---------------------------------------------------------------- python
None == <<>>
Some(x) == <<x>>
IsNone(x) == x = <<>>
The(x) == x[1]

\* ---------------------------------------------------------------- tensors
Tensor(m, chan) == [data |-> m, shape |-> <<Len(m), Len(m[1]), chan>>, ops |-> <<>>]

\* x[i] on the leading axis (what iterating a tensor yields)
Row(t, i) == [data |-> t.data[i], shape |-> Tail(t.shape), ops |-> Append(t.ops, <<"index", i>>)]

RECURSIVE SeqMax(_)
SeqMax(s) ==
  IF Len(s) = 1 THEN Head(s)
  ELSE LET m == SeqMax(Tail(s)) IN IF Head(s) >= m THEN Head(s) ELSE m

\* track_queries_mask[i].sum()
RECURSIVE SumMask(_)
SumMask(m) == IF m = <<>> THEN 0 ELSE (IF Head(m) THEN 1 ELSE 0) + SumMask(Tail(m))

\* variant: the first sum(mask) rows instead of the rows the mask selects
BoolIndexPrefix(x, mask) == SubSeq(x, 1, SumMask(mask))

\* x[mask] with a boolean mask over the leading axis
RECURSIVE BoolIndex(_, _)
BoolIndex(x, mask) ==
  IF x = <<>> THEN <<>>
  ELSE IF Head(mask) THEN <<Head(x)>> \o BoolIndex(Tail(x), Tail(mask))
       ELSE BoolIndex(Tail(x), Tail(mask))

\* F.pad(x, pad=(0, 0, 0, pad_size), value=0): a negative size crops
Pad(x, pad_size) ==
  IF pad_size >= 0 THEN x \o [k \in 1..pad_size |-> 0]
  ELSE SubSeq(x, 1, Len(x) + pad_size)

\* variant: the rebuilt mask marks every position valid
TracksMaskAllTrue(max_num_tracks, num_valid_tracks) ==
  [k \in 1..max_num_tracks |-> TRUE]

\* tracks_mask = zeros(max_num_tracks); tracks_mask[:num_valid_tracks] = True
TracksMask(max_num_tracks, num_valid_tracks) ==
  [k \in 1..max_num_tracks |-> k <= num_valid_tracks]

\* variant: the first sample's valid count instead of the batch maximum
MaxNumTracksFirst(mask) == SumMask(mask[1])

\* track_queries_mask.sum(dim=1).max()
MaxNumTracks(mask) == SeqMax([i \in 1..Len(mask) |-> SumMask(mask[i])])

\* self.detection_pos_emb(): one row per detection slot
DetectionPosEmb(max_detections) == [j \in 1..max_detections |-> -j]

\* x.tile(batch_size, 1, 1)
Tile(x, batch_size) == [i \in 1..batch_size |-> x]

\* torch.ones(N, n, dtype=bool)
Ones(batch_size, n) == [i \in 1..batch_size |-> [j \in 1..n |-> TRUE]]

\* torch.concat([a, b], dim=1)
Concat1(a, b) == [i \in 1..Len(a) |-> a[i] \o b[i]]

\* torch.stack of the per-sample rows needs equal lengths
Rectangular(rows) == \A i \in 1..Len(rows) : Len(rows[i]) = Len(rows[1])

\* lines 226-234, one iteration of the per-sample loop
GatherTracks(tracks_i, mask_i, max_num_tracks) ==
  LET tracks == BoolIndex(tracks_i, mask_i)
      num_valid_tracks == Len(tracks)
      pad_size == max_num_tracks - num_valid_tracks
  IN [tracks |-> Pad(tracks, pad_size),
      tracks_mask |-> TracksMask(max_num_tracks, num_valid_tracks)]

\* DeformableAttention.generate_standard_ref_points(...).unsqueeze(-2)
GenerateStandardRefPoints(bev_feature_shape, batch_size, n_sample) ==
  [grid |-> bev_feature_shape, shape |-> <<batch_size, n_sample, 1, 2>>]

\* variant: one reference point per batch element
NSampleBatch(q) == q.shape[1]

\* n_sample=queries.shape[1] (trackformer.py line 248): the query axis
NSample(q) == q.shape[2]

\* the decoder layer's shape assertions (trackformer.py lines 79-81)
LayerAsserts(layer_self, q, bev_features) ==
  /\ bev_features[2] = layer_self.bev_feature_shape[1] * layer_self.bev_feature_shape[2]
  /\ bev_features[3] = q.shape[3]
  /\ bev_features[3] = layer_self.embed_dim

\* variant: the detection queries are added to the leading num_det positions
ReinjectLeading(x, og) ==
  LET num_queries == Len(x[1])
      num_det == Len(og[1])
  IN [i \in 1..Len(x) |->
        [p \in 1..num_queries |-> IF p <= num_det THEN x[i][p] + og[i][p] ELSE x[i][p]]]

\* trackformer.py lines 91-95 and 101-105: concat([x[:, :num_tracks], x[:, num_tracks:] +
\* og_det_queries], dim=1) when num_tracks > 0, x + og_det_queries otherwise
Reinject(x, og) ==
  LET num_queries == Len(x[1])
      num_det == Len(og[1])
      num_tracks == num_queries - num_det
  IN IF num_tracks > 0
     THEN [i \in 1..Len(x) |->
             SubSeq(x[i], 1, num_tracks) \o
             [p \in 1..(num_queries - num_tracks) |-> x[i][num_tracks + p] + og[i][p]]]
     ELSE [i \in 1..Len(x) |-> [p \in 1..num_queries |-> x[i][p] + og[i][p]]]

\* what the re-injected tensor's source holds afterwards: torch.concat and the binary +
\* allocate their result, the operand keeps its values
AfterReinject(x, reinjected) == x

\* out2 = self.addnorm1(queries, out1): one learned vector per sample and position
AddNorm1Out(q) == [i \in 1..Len(q) |-> [p \in 1..Len(q[i]) |-> 100 * i + 10 * p]]

\* the operands TrackFormerDecoderLayer.forward builds (trackformer.py lines 84-110)
LayerInternals(q, og_det_queries) ==
  LET q_and_k == Reinject(q, og_det_queries)
      queries_1 == AfterReinject(q, q_and_k)
      out2 == AddNorm1Out(queries_1)
      aug_out2 == Reinject(out2, og_det_queries)
      out2_1 == AfterReinject(out2, aug_out2)
  IN [q_and_k |-> q_and_k, queries |-> queries_1,
      sa_query |-> q_and_k, sa_key |-> q_and_k, sa_value |-> queries_1,
      residual1 |-> queries_1,
      out2 |-> out2_1, aug_out2 |-> aug_out2, deform_query |-> aug_out2,
      residual2 |-> out2_1]

\* TrackFormerDecoderLayer.forward: the output has the shape of the queries
DecoderLayer(idx, q) ==
  [data |-> q.data, shape |-> q.shape, ops |-> Append(q.ops, <<"layer", idx>>)]

\* DetectionHead(embed_dim, num_classes, det_3d, num_seg_coefs); None coefficients are 0
DetectionHead(embed_dim, num_classes, det_3d, num_seg_coefs) ==
  [embed_dim |-> embed_dim, num_classes |-> num_classes, det_3d |-> det_3d,
   num_seg_coefs |-> num_seg_coefs]

\* width of the head's output: class logits, geometry, optional mask coefficients
DetectionHeadOut(head) ==
  head.num_classes + (IF head.det_3d THEN 7 ELSE 4) + head.num_seg_coefs

\* self.detection_module(x)
DetectionModule(head, x) ==
  [data |-> x.data,
   shape |-> <<x.shape[1], x.shape[2], DetectionHeadOut(head)>>,
   ops |-> Append(x.ops, <<"head", 0>>)]

\* variant: the inference return fires on the first layer
IsFirstLayer(decoder_idx, num_layers) == decoder_idx = 0

\* decoder_idx == self.num_layers - 1
IsLastLayer(decoder_idx, num_layers) == decoder_idx = num_layers - 1

\* variant: detections collected in reverse layer order
PrependDetections(layers_detections, detections) == <<detections>> \o layers_detections

\* layers_detections.append(detections)
AppendDetections(layers_detections, detections) == Append(layers_detections, detections)

\* torch.stack(layers_detections, dim=0)
Stack0(tensors) ==
  [stack |-> tensors, shape |-> <<Len(tensors)>> \o tensors[1].shape]

\* a returned value: a bare tensor, or a tuple of values
ReturnTensor(t) == [tuple |-> FALSE, items |-> <<t>>]
ReturnTuple(items) == [tuple |-> TRUE, items |-> items]

\* ---------------------------------------------------------------- MapFormer helpers
\* getattr(obj, name) succeeds iff the attribute has been assigned
HasAttr(obj, name) == name \in DOMAIN obj

\* attributes assigned by TrackFormer.__init__ (trackformer.py lines 135-160)
TrackFormerInit(a) ==
  [num_heads |-> a.num_heads, embed_dim |-> a.embed_dim, num_layers |-> a.num_layers,
   num_classes |-> a.num_classes, num_ref_points |-> a.num_ref_points,
   dim_feedforward |-> a.dim_feedforward, dropout |-> a.dropout,
   offset_scale |-> a.offset_scale, max_detections |-> a.max_detections,
   learnable_pe |-> a.learnable_pe, bev_feature_shape |-> a.bev_feature_shape,
   track_threshold |-> a.track_threshold, det_3d |-> a.det_3d,
   training |-> TRUE,
   detection_pos_emb |-> <<a.max_detections, a.embed_dim>>,
   decoder_modules |-> a.num_layers,
   detection_module |-> DetectionHead(a.embed_dim, a.num_classes, a.det_3d, 0)]

\* the attribute MapFormer.__init__ reads for the head's class count (mapformer.py line 50)
ClassCountAttr == "num_obj_classes"

\* what `a, b, c, d = value` iterates over: a tuple's items, or a tensor's rows
Iterate(r) ==
  IF r.tuple THEN r.items
  ELSE [i \in 1..r.items[1].shape[1] |-> Row(r.items[1], i)]

\* number of names on the left of the unpacking assignment (mapformer.py line 89)
UnpackArity == 4

\* start of the slice x[..., start:] / end of x[..., :start] on an axis of length n
SliceIndex(n, start) ==
  IF start < 0 THEN (IF n + start < 0 THEN 0 ELSE n + start)
  ELSE (IF start > n THEN n ELSE start)

LastDim(shape) == shape[Len(shape)]
SetLastDim(shape, n) == [shape EXCEPT ![Len(shape)] = n]

RECURSIVE Numel(_)
Numel(shape) == IF shape = <<>> THEN 1 ELSE Head(shape) * Numel(Tail(shape))

\* ProtoSegModule.forward: (N, in_channels, H, W) -> (N, out_channels, H, W)
ProtoSegModule(out_channels, x) == <<x[1], out_channels, x[3], x[4]>>

\* torch.einsum("nast,nshw->nahw", a, b) on shapes; None when the operands do not fit
EinsumMasks(a, b) ==
  IF Len(a) = 4 /\ Len(b) = 4 /\ a[1] = b[1] /\ a[3] = b[2]
  THEN Some(<<a[1], a[2], b[3], b[4]>>)
  ELSE None

\* ---------------------------------------------------------------- OccFormer helpers
\* output size of nn.Upsample(scale_factor = num / den) on one axis
Interpolate(size, num, den) == (size * num) \div den

\* nn.Upsample on (N, C, H, W)
Upsample(shape, num, den) ==
  <<shape[1], shape[2], Interpolate(shape[3], num, den), Interpolate(shape[4], num, den)>>

\* variant: a transposed convolution whose kernel does not cover the stride
ConvTransposeOutUnitKernel(size, kernel_size, stride, padding) ==
  (size - 1) * stride - 2 * padding + 1

\* output size of a transposed convolution on one axis
ConvTransposeOut(size, kernel_size, stride, padding) ==
  (size - 1) * stride - 2 * padding + kernel_size

\* self.conv_transpose on (N, C, H, W) (occformer.py lines 178-188)
ConvTransposeStack(scale, shape) ==
  <<shape[1], shape[2], ConvTransposeOut(shape[3], scale, scale, 0),
    ConvTransposeOut(shape[4], scale, scale, 0)>>

\* shape of a + b under broadcasting; None when the shapes do not broadcast
Broadcast(a, b) ==
  IF Len(a) = Len(b) /\ \A k \in 1..Len(a) : a[k] = b[k] \/ a[k] = 1 \/ b[k] = 1
  THEN Some([k \in 1..Len(a) |-> IF a[k] = 1 THEN b[k] ELSE a[k]])
  ELSE None

\* x.reshape(target) is possible iff the element counts agree
CanReshape(shape, target) == Numel(shape) = Numel(target)

\* torch.stack(shapes, dim): a new axis of length Len(shapes) at position dim
StackAt(shapes, dim) ==
  SubSeq(shapes[1], 1, dim) \o <<Len(shapes)>> \o SubSeq(shapes[1], dim + 1, Len(shapes[1]))

\* axis on which the per-timestep occupancies are stacked (occformer.py line 283)
OccStackDim == 2

\* variant: the agent counts are not compared
AgentCountsIgnored(track_queries, motion_queries) == TRUE

\* the four preconditions of OccFormer.forward (occformer.py lines 234-237)
AgentCountsMatch(track_queries, motion_queries) == track_queries[2] = motion_queries[2]

OccAsserts(s, a) ==
  /\ AgentCountsMatch(a.track_queries, a.motion_queries)
  /\ a.track_queries[3] = a.motion_queries[4] /\ a.motion_queries[4] = s.embed_dim
  /\ a.motion_queries[3] = s.num_modes
  /\ a.bev_features[3] = s.embed_dim

\* dense_feature_shape given to every decoder layer (occformer.py lines 191-194)
DenseFeatureShape(s) ==
  <<s.bev_feature_hw[1] \div s.bev_downsmaple_scale,
    s.bev_feature_hw[2] \div s.bev_downsmaple_scale>>

\* the pad-mask assertion of the decoder layer (occformer.py line 102)
PadMaskOk(pad_mask) == The(pad_mask).ndim = 2 /\ The(pad_mask).bool

\* mask = torch.matmul(out2, mask_features.permute(0, 2, 1)) (occformer.py line 99): one
\* learned, nonzero logit per sample, dense position and agent
ComputedMask(batch_size, positions, agents) ==
  [n \in 1..batch_size |->
     [p \in 1..positions |-> [a \in 1..agents |-> 1000 * n + 10 * p + a]]]

\* variant: the entries of the valid agents are the ones filled
MaskedFillValid(mask, pad) ==
  [n \in 1..Len(mask) |->
     [p \in 1..Len(mask[n]) |->
        [a \in 1..Len(mask[n][p]) |-> IF pad[n][a] THEN 0 ELSE mask[n][p][a]]]]

\* torch.masked_fill(mask, ~pad_mask[:, None, :], 0.0) (occformer.py lines 103-104)
MaskedFill(mask, pad) ==
  [n \in 1..Len(mask) |->
     [p \in 1..Len(mask[n]) |->
        [a \in 1..Len(mask[n][p]) |-> IF ~pad[n][a] THEN 0 ELSE mask[n][p][a]]]]

\* OccFormerDecoderLayer.forward (occformer.py lines 86-118): [err, out, mask, attn], err
\* None on success; out and mask are shapes, attn the values of the attention mask given
\* to the cross attention
OccLayer(s, dense, agent_features, mask_features, return_attn_mask, pad_mask) ==
  LET batch_size == dense[1]
      dfs == DenseFeatureShape(s)
      ds_shape == <<dfs[1] \div s.op_attn_scale, dfs[2] \div s.op_attn_scale>>
      ds == Upsample(dense, 1, s.op_attn_scale)
      flat == <<batch_size, ds_shape[1] * ds_shape[2], s.embed_dim>>
      mask == <<flat[1], flat[2], mask_features[2]>>
      computed == ComputedMask(mask[1], mask[2], mask[3])
      up == Upsample(<<batch_size, s.embed_dim, ds_shape[1], ds_shape[2]>>, s.op_attn_scale, 1)
      out5 == Broadcast(up, dense)
      fail(e) == [err |-> Some(e), out |-> None, mask |-> None, attn |-> None]
  IN IF ds[3] <= 0 \/ ds[4] <= 0 THEN fail("RuntimeError")
     ELSE IF ~CanReshape(ds, flat) THEN fail("RuntimeError")
     ELSE IF flat[3] # mask_features[3] THEN fail("RuntimeError")
     ELSE IF ~IsNone(pad_mask) /\ ~PadMaskOk(pad_mask) THEN fail("AssertionError")
     ELSE IF IsNone(out5) THEN fail("RuntimeError")
     ELSE [err |-> None, out |-> out5,
           mask |-> IF return_attn_mask
                    THEN Some(<<batch_size, Numel(mask) \div (batch_size * ds_shape[1] * ds_shape[2]),
                                ds_shape[1], ds_shape[2]>>)
                    ELSE None,
           attn |-> IF IsNone(pad_mask) THEN Some(computed)
                    ELSE Some(MaskedFill(computed, The(pad_mask).valid))]

\* occformer.py lines 275-280 on shapes: the occupancy of one timestep, None on failure
Occupancy(s, batch_size, num_agents, dense, mask_features) ==
  LET occ_features == mask_features
      conv == ConvTransposeStack(s.bev_downsmaple_scale, dense)
      proba_map == <<batch_size, Numel(conv) \div (batch_size * s.embed_dim), s.embed_dim>>
      occupancy == <<batch_size, proba_map[2], occ_features[2]>>
      target == <<batch_size, num_agents, s.bev_feature_hw[1], s.bev_feature_hw[2]>>
  IN IF CanReshape(occupancy, target) THEN Some(target) ELSE None


\* ---------------------------------------------------------------- state
VARIABLES
  kind,               \* the entry point under analysis
  pc,                 \* position in it
  err,                \* the exception raised, None if none
  self,               \* the module's attributes
  args,               \* the arguments of forward
  ret,                \* the value returned, None before the return
  detection_queries, padding_mask, new_track_queries, new_track_queries_mask,
  queries, ref_points, decoder_idx, output, layers_detections,
  calls,              \* log of the decoder-layer calls made
  head_calls,         \* log of the tensors given to the detection head
  mf,                 \* MapFormer.forward's unpacked names, None before the unpacking
  sparse_features, dense_features, tidx, occupancies, all_attn_masks,
  occ_calls           \* log of the completed OccFormer timesteps

ctlVars == <<kind, self, args>>
tfVars == <<detection_queries, padding_mask, new_track_queries, new_track_queries_mask,
            queries, ref_points, decoder_idx, output, layers_detections,
            calls, head_calls>>
occVars == <<sparse_features, dense_features, tidx, occupancies, all_attn_masks, occ_calls>>
vars == <<kind, pc, err, self, args, ret, tfVars, mf, occVars>>

\* ---------------------------------------------------------------- inputs
\* the smallest and the largest value of a configuration parameter
Ends(n) == {1, n}

Masks(n, w) == [1..n -> [1..w -> BOOLEAN]]

\* track query j of batch element i
TrackQueries(n, t) == [i \in 1..n |-> [j \in 1..t |-> 10 * i + j]]

TrackFormerSelf(L, D, tr, shape, head) ==
  [num_layers |-> L, max_detections |-> D, training |-> tr, embed_dim |-> EmbedDim,
   bev_feature_shape |-> shape, detection_module |-> head]

TrackArgs(n, shape, tq, tm) ==
  [bev_features |-> <<n, shape[1] * shape[2], EmbedDim>>,
   track_queries |-> tq, track_embed |-> EmbedDim, track_queries_mask |-> tm]

\* no track queries; t track queries per sample with any validity mask; or a mask one
\* entry wider than the track queries
InitTrackArgs(batch_sizes, maxt, shape) ==
  \E n \in batch_sizes :
    \/ args = TrackArgs(n, shape, None, None)
    \/ \E t \in 0..maxt :
         \/ \E m \in Masks(n, t) : args = TrackArgs(n, shape, Some(TrackQueries(n, t)), Some(m))
         \/ args = TrackArgs(n, shape, Some(TrackQueries(n, t)), Some(Ones(n, t + 1)))

InitLocals ==
  /\ err = None /\ ret = None
  /\ detection_queries = None /\ padding_mask = None
  /\ new_track_queries = None /\ new_track_queries_mask = None
  /\ queries = None /\ ref_points = None /\ decoder_idx = 0 /\ output = None
  /\ layers_detections = <<>> /\ calls = <<>> /\ head_calls = <<>>
  /\ mf = None
  /\ sparse_features = None /\ dense_features = None /\ tidx = 0
  /\ occupancies = <<>> /\ all_attn_masks = <<>> /\ occ_calls = <<>>

\* TrackFormer.forward on batches of one or two samples with up to MaxTracks track queries
InitTrackFormer ==
  /\ kind = "TrackFormer" /\ pc = "tf_enter"
  /\ \E L \in Ends(MaxLayers), D \in Ends(MaxDet), tr \in BOOLEAN :
       self = TrackFormerSelf(L, D, tr, <<MaxBevSide, MaxBevSide>>,
                DetectionHead(EmbedDim, 1, TRUE, 0))
  /\ InitTrackArgs(1..2, MaxTracks, <<MaxBevSide, MaxBevSide>>)
  /\ InitLocals

BevShapes == {<<h, MaxBevSide>> : h \in Ends(MaxBevSide)}

\* constructor arguments of MapFormer(...)
MapFormerCtorArgs ==
  {[num_heads |-> 1, embed_dim |-> EmbedDim, num_layers |-> L, num_classes |-> nc,
    num_ref_points |-> 4, dim_feedforward |-> 512, dropout |-> 1, offset_scale |-> 1,
    max_detections |-> D, learnable_pe |-> TRUE, bev_feature_shape |-> shape,
    track_threshold |-> 1, det_3d |-> d3, num_seg_coeffs |-> S, seg_c_h |-> 256] :
     L \in Ends(MaxLayers), nc \in 1..2, D \in Ends(MaxDet), shape \in BevShapes,
     d3 \in BOOLEAN, S \in 0..MaxSegCoeffs}

InitMapFormerInit ==
  /\ kind = "MapFormerInit" /\ pc = "mfi_super"
  /\ self = [class |-> "MapFormer"]
  /\ args \in MapFormerCtorArgs
  /\ InitLocals

\* MapFormer.forward on an instance holding the attributes its body reads; batch sizes
\* go up to the arity of the unpacking, with at most one track query per sample
InitMapFormer ==
  /\ kind = "MapFormer" /\ pc = "mf_enter"
  /\ \E L \in Ends(MaxLayers), D \in Ends(MaxDet), tr \in BOOLEAN, shape \in BevShapes,
        S \in Ends(MaxSegCoeffs) :
       /\ self = TrackFormerSelf(L, D, tr, shape, DetectionHead(EmbedDim, 1, TRUE, S))
                   @@ [num_seg_coeffs |-> S]
       /\ InitTrackArgs(1..UnpackArity, 1, shape)
  /\ InitLocals

\* BaseFormer's inference_mode flag
InferenceModes == BOOLEAN

\* validity of the agents of each sample: a set of valid agents for the odd samples, its
\* complement for the even ones
PadRows(n, a) ==
  {[i \in 1..n |-> [j \in 1..a |-> IF i % 2 = 1 THEN j \in S ELSE j \notin S]] :
     S \in SUBSET (1..a)}

\* no pad mask; a 2-D boolean mask over (sample, agent); or a mask of another rank or dtype
PadMasks(n, a) ==
  {None}
    \cup {Some([ndim |-> 2, bool |-> TRUE, valid |-> v]) : v \in PadRows(n, a)}
    \cup {Some([ndim |-> 3, bool |-> b, valid |-> Ones(n, a)]) : b \in BOOLEAN}
    \cup {Some([ndim |-> 2, bool |-> FALSE, valid |-> Ones(n, a)])}

Widths == {EmbedDim, EmbedDim + 1}

\* channel widths of (track_queries, motion_queries, bev_features): at most one of them
\* off the model width, or track and motion queries both off it
OccWidths ==
  {t \in Widths \X Widths \X Widths :
     \/ Cardinality({k \in 1..3 : t[k] # EmbedDim}) <= 1
     \/ t = <<EmbedDim + 1, EmbedDim + 1, EmbedDim>>}

\* the pad mask is first read inside the decoder layer: a call that fails the shape
\* preconditions is enumerated without one
InitOccFormer ==
  /\ kind = "OccFormer" /\ pc = "of_check"
  /\ \E h \in 1..MaxGrid, w \in 1..MaxGrid, sc \in Ends(MaxScale), op \in Ends(MaxScale),
        T \in Ends(MaxHorizon), nm \in Ends(MaxModes), inf \in InferenceModes :
       /\ self = [embed_dim |-> EmbedDim, num_layers |-> T, pred_horizon |-> T,
                  num_modes |-> nm, max_num_agents |-> MaxAgents,
                  bev_feature_hw |-> <<h, w>>, bev_downsmaple_scale |-> sc,
                  op_attn_scale |-> op, inference_mode |-> inf]
       /\ \E n \in Ends(OccMaxBatch), at \in Ends(MaxAgents), am \in Ends(MaxAgents),
             k \in Ends(MaxModes), wd \in OccWidths :
          \E pm \in PadMasks(n, at) :
            /\ args = [bev_features |-> <<n, h * w, wd[3]>>,
                       track_queries |-> <<n, at, wd[1]>>,
                       motion_queries |-> <<n, am, k, wd[2]>>,
                       pad_mask |-> pm]
            /\ IsNone(pm) \/ OccAsserts(self, args)
  /\ InitLocals

Init == InitTrackFormer \/ InitMapFormerInit \/ InitMapFormer \/ InitOccFormer

\* ---------------------------------------------------------------- raise
Raise(e) ==
  /\ pc' = "error" /\ err' = Some(e)

\* where TrackFormer.forward returns to
AfterSuper == IF kind = "MapFormer" THEN "mf_unpack" ELSE "done"

\* ---------------------------------------------------------------- TrackFormer.forward
\* lines 204-210
TF_DetQueries ==
  /\ pc = "tf_enter"
  /\ IF args.bev_features[3] # self.embed_dim
     THEN /\ Raise("AssertionError")
          /\ UNCHANGED <<detection_queries, padding_mask>>
     ELSE LET batch_size == args.bev_features[1] IN
          /\ detection_queries' = Tile(DetectionPosEmb(self.max_detections), batch_size)
          /\ padding_mask' = Ones(batch_size, self.max_detections)
          /\ pc' = "tf_merge" /\ err' = err
  /\ UNCHANGED <<ctlVars, ret, new_track_queries, new_track_queries_mask, queries,
                 ref_points, decoder_idx, output, layers_detections, calls, head_calls,
                 mf, occVars>>

\* lines 212-241
TF_MergeTracks ==
  /\ pc = "tf_merge"
  /\ IF IsNone(args.track_queries)
     THEN /\ queries' = Tensor(detection_queries, self.embed_dim)
          /\ pc' = "tf_ref" /\ err' = err
          /\ UNCHANGED <<padding_mask, new_track_queries, new_track_queries_mask>>
     ELSE LET track_queries == The(args.track_queries)
              track_queries_mask == The(args.track_queries_mask)
              batch_size == args.bev_features[1]
          IN
          IF \/ args.track_embed # self.embed_dim
             \/ Len(track_queries[1]) # Len(track_queries_mask[1])
          THEN /\ Raise("AssertionError")
               /\ UNCHANGED <<padding_mask, new_track_queries, new_track_queries_mask, queries>>
          ELSE LET max_num_tracks == MaxNumTracks(track_queries_mask)
                   g == [i \in 1..batch_size |->
                           GatherTracks(track_queries[i], track_queries_mask[i], max_num_tracks)]
                   tq == [i \in 1..batch_size |-> g[i].tracks]
                   tm == [i \in 1..batch_size |-> g[i].tracks_mask]
               IN
               IF ~Rectangular(tq)
               THEN /\ Raise("RuntimeError")
                    /\ UNCHANGED <<padding_mask, new_track_queries, new_track_queries_mask, queries>>
               ELSE /\ new_track_queries' = Some(tq)
                    /\ new_track_queries_mask' = Some(tm)
                    /\ queries' = Tensor(Concat1(tq, detection_queries), self.embed_dim)
                    /\ padding_mask' = Concat1(tm, padding_mask)
                    /\ pc' = "tf_ref" /\ err' = err
  /\ UNCHANGED <<ctlVars, ret, detection_queries, ref_points, decoder_idx, output,
                 layers_detections, calls, head_calls, mf, occVars>>

\* lines 243-249
TF_RefPoints ==
  /\ pc = "tf_ref"
  /\ ref_points' = GenerateStandardRefPoints(self.bev_feature_shape, args.bev_features[1],
                                             NSample(queries))
  /\ pc' = "tf_layers"
  /\ UNCHANGED <<ctlVars, err, ret, detection_queries, padding_mask, new_track_queries,
                 new_track_queries_mask, queries, decoder_idx, output, layers_detections,
                 calls, head_calls, mf, occVars>>

\* the query argument handed to decoder layer decoder_idx (line 254)
LayerQueries(initial_queries, previous_output) == initial_queries

\* lines 252-265, one iteration of the loop over the decoder layers
TF_DecoderLayer ==
  /\ pc = "tf_layers"
  /\ decoder_idx < self.num_layers
  /\ LET q == LayerQueries(queries, output) IN
     IF ~LayerAsserts(self, q, args.bev_features)
     THEN /\ Raise("AssertionError")
          /\ UNCHANGED <<ret, decoder_idx, output, layers_detections, calls, head_calls>>
     ELSE LET out == DecoderLayer(decoder_idx, q) IN
          /\ output' = out
          /\ calls' = Append(calls,
                [layer |-> decoder_idx, queries |-> q, bev_features |-> args.bev_features,
                 ref_points |-> ref_points, og_det_queries |-> detection_queries,
                 padding_mask |-> padding_mask, out |-> out,
                 internals |-> LayerInternals(q.data, detection_queries)])
          /\ decoder_idx' = decoder_idx + 1
          /\ err' = err
          /\ IF ~self.training
             THEN IF IsLastLayer(decoder_idx, self.num_layers)
                  THEN /\ ret' = Some(ReturnTensor(DetectionModule(self.detection_module, out)))
                       /\ head_calls' = Append(head_calls, out)
                       /\ pc' = AfterSuper
                       /\ UNCHANGED layers_detections
                  ELSE /\ pc' = pc
                       /\ UNCHANGED <<ret, head_calls, layers_detections>>
             ELSE /\ layers_detections' =
                       AppendDetections(layers_detections,
                                        DetectionModule(self.detection_module, out))
                  /\ head_calls' = Append(head_calls, out)
                  /\ pc' = pc
                  /\ UNCHANGED ret
  /\ UNCHANGED <<ctlVars, detection_queries, padding_mask, new_track_queries,
                 new_track_queries_mask, queries, ref_points, mf, occVars>>

\* lines 267-268, after the loop
TF_Return ==
  /\ pc = "tf_layers"
  /\ decoder_idx >= self.num_layers
  /\ IF layers_detections = <<>>
     THEN /\ Raise("RuntimeError") /\ UNCHANGED ret
     ELSE /\ ret' = Some(ReturnTuple(<<output, Stack0(layers_detections)>>))
          /\ pc' = AfterSuper /\ err' = err
  /\ UNCHANGED <<ctlVars, tfVars, mf, occVars>>

\* ---------------------------------------------------------------- MapFormer.__init__
\* mapformer.py line 35: super().__init__(*args, **kwargs)
MFI_SuperInit ==
  /\ pc = "mfi_super"
  /\ self' = TrackFormerInit(args) @@ self
  /\ pc' = "mfi_body"
  /\ UNCHANGED <<kind, args, err, ret, tfVars, mf, occVars>>

\* mapformer.py lines 37-53
MFI_Body ==
  /\ pc = "mfi_body"
  /\ IF ~(args.num_seg_coeffs > 0)
     THEN /\ Raise("AssertionError") /\ UNCHANGED self
     ELSE LET s1 == [num_seg_coeffs |-> args.num_seg_coeffs, seg_c_h |-> args.seg_c_h,
                     proto_seg_module |-> <<self.embed_dim, args.num_seg_coeffs>>] @@ self
          IN
          IF ~HasAttr(s1, ClassCountAttr)
          THEN /\ Raise("AttributeError") /\ self' = s1
          ELSE /\ self' = [s1 EXCEPT !.detection_module =
                             DetectionHead(s1.embed_dim, s1[ClassCountAttr], s1.det_3d,
                                           s1.num_seg_coeffs)]
               /\ pc' = "done" /\ err' = err
  /\ UNCHANGED <<kind, args, ret, tfVars, mf, occVars>>

\* ---------------------------------------------------------------- MapFormer.forward
\* mapformer.py lines 87-91: enter the parent's forward
MF_CallSuper ==
  /\ pc = "mf_enter"
  /\ pc' = "tf_enter"
  /\ UNCHANGED <<ctlVars, err, ret, tfVars, mf, occVars>>

\* mapformer.py line 89: unpack the parent's result into four names
MF_Unpack ==
  /\ pc = "mf_unpack"
  /\ LET items == Iterate(The(ret)) IN
     IF Len(items) # UnpackArity
     THEN /\ Raise("ValueError") /\ UNCHANGED mf
     ELSE /\ mf' = Some([output |-> items[1], detections |-> items[2],
                         track_queries_mask |-> items[3], layers_results |-> items[4]])
          /\ pc' = "mf_masks" /\ err' = err
  /\ ret' = None
  /\ UNCHANGED <<ctlVars, tfVars, occVars>>

\* mapformer.py lines 93-99
MF_Masks ==
  /\ pc = "mf_masks"
  /\ LET batch_size == args.bev_features[1]
         detections == The(mf).detections
         n == LastDim(detections.shape)
         coef_dim_trunc == n - self.num_seg_coeffs
         cut == SliceIndex(n, coef_dim_trunc)
         mask_coefs == SetLastDim(detections.shape, n - cut)
         trimmed == [detections EXCEPT !.shape = SetLastDim(detections.shape, cut),
                                       !.ops = Append(detections.ops, <<"trim", cut>>)]
         bev == <<batch_size, self.embed_dim, self.bev_feature_shape[1],
                  self.bev_feature_shape[2]>>
         protos == ProtoSegModule(self.num_seg_coeffs, bev)
         masks == EinsumMasks(Append(mask_coefs, 1), protos)
     IN
     IF ~CanReshape(args.bev_features, bev) \/ IsNone(masks)
     THEN /\ Raise("RuntimeError") /\ UNCHANGED ret
     ELSE /\ ret' = Some(ReturnTuple(<<The(mf).output, trimmed,
                                       [shape |-> The(masks), coefs |-> mask_coefs],
                                       The(mf).track_queries_mask, The(mf).layers_results>>))
          /\ pc' = "done" /\ err' = err
  /\ UNCHANGED <<ctlVars, tfVars, mf, occVars>>

\* ---------------------------------------------------------------- OccFormer.forward
\* occformer.py lines 234-237
OF_Check ==
  /\ pc = "of_check"
  /\ IF OccAsserts(self, args)
     THEN pc' = "of_prepare" /\ err' = err
     ELSE Raise("AssertionError")
  /\ UNCHANGED <<ctlVars, ret, tfVars, mf, occVars>>

\* occformer.py lines 239-254
OF_Prepare ==
  /\ pc = "of_prepare"
  /\ LET batch_size == args.track_queries[1]
         num_agents == args.track_queries[2]
         pooled == <<args.motion_queries[1], args.motion_queries[2],
                     args.motion_queries[3] - self.num_modes + 1, args.motion_queries[4]>>
         x_queries == <<pooled[1], pooled[2], pooled[4]>>
         pos_emb == <<batch_size, num_agents, self.embed_dim>>
         bev == <<batch_size, self.embed_dim, self.bev_feature_hw[1], self.bev_feature_hw[2]>>
         dense == Upsample(bev, 1, self.bev_downsmaple_scale)
     IN
     IF \/ pooled[3] < 1
        \/ x_queries[2] # num_agents \/ x_queries[1] # batch_size
        \/ ~CanReshape(args.bev_features, bev)
        \/ dense[3] <= 0 \/ dense[4] <= 0
     THEN /\ Raise("RuntimeError")
          /\ UNCHANGED <<sparse_features, dense_features>>
     ELSE /\ sparse_features' =
               Some(<<batch_size, num_agents,
                      args.track_queries[3] + pos_emb[3] + x_queries[3]>>)
          /\ dense_features' = Some([shape |-> dense, ops |-> <<<<"downsample", 0>>>>])
          /\ pc' = "of_loop" /\ err' = err
  /\ UNCHANGED <<ctlVars, ret, tfVars, mf, tidx, occupancies, all_attn_masks, occ_calls>>

\* variant: an attention mask is requested in every mode
ReturnAttnMaskAlways(inference_mode) == TRUE

\* return_attn_mask = (not self.inference_mode) (occformer.py line 269)
ReturnAttnMask(inference_mode) == ~inference_mode

\* variant: the name dense_features keeps its value across the layer call
NextDenseKept(current, layer_out) == current

\* dense_features, attn_masks = self.decoder_modules[tidx](...) (occformer.py line 265):
\* the name dense_features is rebound to the layer's output
NextDense(current, layer_out) == layer_out

\* occformer.py lines 256-281, one timestep
OF_Timestep ==
  /\ pc = "of_loop"
  /\ tidx < self.num_layers
  /\ LET batch_size == args.track_queries[1]
         num_agents == args.track_queries[2]
         agent_features == <<batch_size, num_agents, self.embed_dim>>
         mask_features == agent_features
         dense_in == The(dense_features)
         return_attn_mask == ReturnAttnMask(self.inference_mode)
         r == OccLayer(self, dense_in.shape, agent_features, mask_features,
                       return_attn_mask, args.pad_mask)
     IN
     IF ~IsNone(r.err)
     THEN /\ Raise(The(r.err))
          /\ UNCHANGED <<dense_features, tidx, occupancies, all_attn_masks, occ_calls>>
     ELSE LET ops == Append(dense_in.ops, <<"layer", tidx>>)
              layer_out == [shape |-> The(r.out), ops |-> ops]
              dense == NextDense(dense_in, layer_out)
              occupancy == Occupancy(self, batch_size, num_agents, dense.shape, mask_features)
          IN
          IF IsNone(occupancy)
          THEN /\ Raise("RuntimeError")
               /\ UNCHANGED <<dense_features, tidx, occupancies, all_attn_masks, occ_calls>>
          ELSE /\ dense_features' = Some(dense)
               /\ all_attn_masks' =
                    IF IsNone(r.mask) THEN all_attn_masks
                    ELSE Append(all_attn_masks, [shape |-> The(r.mask), ops |-> ops])
               /\ occupancies' =
                    Append(occupancies, [shape |-> The(occupancy), ops |-> dense.ops])
               /\ occ_calls' = Append(occ_calls,
                     [tidx |-> tidx, layer |-> tidx, dense_in |-> dense_in,
                      dense_out |-> layer_out, return_attn_mask |-> return_attn_mask,
                      mask |-> r.mask, attn |-> r.attn])
               /\ tidx' = tidx + 1
               /\ pc' = pc /\ err' = err
  /\ UNCHANGED <<ctlVars, ret, tfVars, mf, sparse_features>>

\* occformer.py lines 283-289
OF_Return ==
  /\ pc = "of_loop"
  /\ tidx >= self.num_layers
  /\ IF occupancies = <<>>
     THEN /\ Raise("RuntimeError") /\ UNCHANGED ret
     ELSE LET occ == [shape |-> StackAt([t \in 1..Len(occupancies) |-> occupancies[t].shape],
                                        OccStackDim),
                      stack |-> occupancies]
          IN
          /\ ret' = Some(ReturnTuple(
                 <<occ,
                   IF Len(all_attn_masks) > 0
                   THEN Some([shape |-> StackAt([t \in 1..Len(all_attn_masks) |->
                                                    all_attn_masks[t].shape], OccStackDim),
                              stack |-> all_attn_masks])
                   ELSE None>>))
          /\ pc' = "done" /\ err' = err
  /\ UNCHANGED <<ctlVars, tfVars, mf, occVars>>

Next ==
  \/ TF_DetQueries
  \/ TF_MergeTracks
  \/ TF_RefPoints
  \/ TF_DecoderLayer
  \/ TF_Return
  \/ MFI_SuperInit
  \/ MFI_Body
  \/ MF_CallSuper
  \/ MF_Unpack
  \/ MF_Masks
  \/ OF_Check
  \/ OF_Prepare
  \/ OF_Timestep
  \/ OF_Return

Spec == Init /\ [][Next]_vars

\* ================================================================ properties
InTrackForward == kind \in {"TrackFormer", "MapFormer"}

\* TrackFormer.forward has built the working query set
QueriesBuilt == InTrackForward /\ ~IsNone(queries)

\* TrackFormer.forward has returned to its caller
TFReturned == InTrackForward /\ pc = AfterSuper /\ ~IsNone(ret) /\ IsNone(mf)

TracksSupplied == InTrackForward /\ ~IsNone(args.track_queries)

\* number of True entries of one sample's validity mask
ValidCount(m) == Cardinality({j \in 1..Len(m) : m[j]})

\* the largest number of True entries over the batch
BatchMaxValid ==
  LET m == The(args.track_queries_mask)
  IN CHOOSE c \in 0..Len(m[1]) :
       /\ \E i \in 1..Len(m) : ValidCount(m[i]) = c
       /\ \A i \in 1..Len(m) : ValidCount(m[i]) <= c

\* C1: the working query set and its padding mask have length M + max_detections on the
\* query axis, M the largest number of True mask entries over the batch; without track
\* queries the length is max_detections and the padding mask is all True.
C1_QuerySetLength ==
  QueriesBuilt =>
    LET expected == IF TracksSupplied THEN BatchMaxValid + self.max_detections
                    ELSE self.max_detections
        len == queries.shape[2]
    IN /\ len = expected
       /\ Len(queries.data) = args.bev_features[1]
       /\ Len(padding_mask) = args.bev_features[1]
       /\ \A i \in 1..args.bev_features[1] :
            /\ Len(queries.data[i]) = len
            /\ Len(padding_mask[i]) = len
            /\ ~TracksSupplied => \A p \in 1..len : padding_mask[i][p]

C1_Witness ==
  /\ QueriesBuilt /\ TracksSupplied /\ kind = "TrackFormer"
  /\ BatchMaxValid = 2
  /\ \E i \in 1..args.bev_features[1] : ValidCount(The(args.track_queries_mask)[i]) = 0
  /\ queries.shape[2] = 2 + self.max_detections

\* C2: with track queries supplied, each sample's track block is exactly its track queries
\* whose mask entry is True, in their original order, followed by zero vectors up to the
\* batch-wide maximum valid count; a track query whose mask entry is False is nowhere in
\* the query set.
C2_TrackBlockGather ==
  (QueriesBuilt /\ TracksSupplied) =>
    LET width == queries.shape[2] - self.max_detections IN
    \A i \in 1..args.bev_features[1] :
      LET tq == The(args.track_queries)[i]
          m == The(args.track_queries_mask)[i]
          row == queries.data[i]
          block == The(new_track_queries)[i]
          nv == ValidCount(m)
      IN /\ Len(block) = width /\ nv <= width
         /\ \A k \in 1..width : row[k] = block[k]
         \* the j-th track, when valid, sits at the rank it has among the valid ones
         /\ \A j \in 1..Len(tq) :
              IF m[j] THEN block[Cardinality({x \in 1..j : m[x]})] = tq[j]
              ELSE \A p \in 1..Len(row) : row[p] # tq[j]
         /\ \A k \in (nv + 1)..width : block[k] = 0
         /\ \E n \in 1..args.bev_features[1] :
              ValidCount(The(args.track_queries_mask)[n]) = width

C2_Witness ==
  /\ QueriesBuilt /\ TracksSupplied /\ args.bev_features[1] = 2
  /\ The(args.track_queries_mask) = <<<<TRUE, FALSE, TRUE>>, <<FALSE, TRUE, FALSE>>>>
  /\ The(new_track_queries) = <<<<11, 13>>, <<22, 0>>>>

\* C3: with track queries supplied, each sample's rebuilt track mask has the batch-wide
\* maximum valid count as length and is True exactly at its first num_valid_tracks
\* positions; a padding-mask position is False iff it holds a zero pad vector; when every
\* input mask entry is True the rebuilt mask has the track count as length and is all True.
C3_RebuiltMask ==
  (QueriesBuilt /\ TracksSupplied) =>
    LET M == BatchMaxValid
        all == The(args.track_queries_mask)
        allTrue == \A n \in 1..Len(all) : \A j \in 1..Len(all[n]) : all[n][j]
    IN
    \A i \in 1..args.bev_features[1] :
      LET nm == The(new_track_queries_mask)[i]
          nv == ValidCount(all[i])
      IN /\ Len(nm) = M
         /\ \A k \in 1..M : nm[k] <=> k <= nv
         /\ \A p \in 1..Len(padding_mask[i]) :
              /\ (~padding_mask[i][p]) <=> (queries.data[i][p] = 0)
              /\ (~padding_mask[i][p]) <=> (p <= M /\ p > nv)
              /\ p <= M => padding_mask[i][p] = nm[p]
         /\ allTrue =>
              (Len(nm) = Len(The(args.track_queries)[i]) /\ \A k \in 1..Len(nm) : nm[k])

C3_Witness ==
  /\ QueriesBuilt /\ TracksSupplied /\ args.bev_features[1] = 2
  /\ The(args.track_queries_mask) = <<<<TRUE, FALSE, TRUE>>, <<FALSE, FALSE, TRUE>>>>
  /\ The(new_track_queries_mask) = <<<<TRUE, TRUE>>, <<TRUE, FALSE>>>>

\* C4: the decoder layers form a chain: layer 0 gets the initial query set, layer i+1 gets
\* the output of layer i, and every layer gets the same detection-query block, BEV
\* features, reference points and padding mask.
C4_LayerChain ==
  InTrackForward =>
    \A k \in 1..Len(calls) :
      /\ calls[k].layer = k - 1
      /\ calls[k].queries = IF k = 1 THEN queries ELSE calls[k - 1].out
      /\ calls[k].og_det_queries = detection_queries
      /\ calls[k].bev_features = args.bev_features
      /\ calls[k].ref_points = ref_points
      /\ calls[k].padding_mask = padding_mask

\* C5: in inference mode the detection head is applied exactly once, to the output of the
\* last decoder layer and to no earlier one, and that one detection tensor is returned
\* bare, not in a tuple.
C5_InferenceHeadOnce ==
  (InTrackForward /\ ~self.training) =>
    /\ layers_detections = <<>>
    /\ Len(head_calls) <= 1
    /\ \A h \in 1..Len(head_calls) :
         /\ Len(calls) = self.num_layers
         /\ calls[self.num_layers].layer = self.num_layers - 1
         /\ head_calls[h] = calls[self.num_layers].out
    /\ TFReturned =>
         /\ Len(head_calls) = 1
         /\ ~The(ret).tuple
         /\ The(ret).items = <<DetectionModule(self.detection_module, head_calls[1])>>
    /\ ~(pc = "tf_layers" /\ decoder_idx >= self.num_layers)

C5_Witness ==
  /\ TFReturned /\ kind = "TrackFormer" /\ ~self.training /\ self.num_layers = MaxLayers
  /\ Len(calls) > 1 /\ Len(head_calls) = 1

C7_MapFormerReturns ==
  (kind = "MapFormer" /\ pc \in {"done", "error"} /\ Len(head_calls) > 0) =>
    /\ pc = "done"
    /\ The(ret).tuple /\ Len(The(ret).items) = 5

\* C8: a MapFormer is constructible from a valid configuration with num_seg_coeffs > 0 and
\* its detection head gets the parent's embed_dim, class count, det_3d and num_seg_coeffs.
C8_MapFormerConstructs ==
  (kind = "MapFormerInit" /\ args.num_seg_coeffs > 0 /\ pc \in {"done", "error"}) =>
    /\ pc = "done"
    /\ self.detection_module =
         DetectionHead(args.embed_dim, args.num_classes, args.det_3d, args.num_seg_coeffs)

\* the preconditions of an OccFormer call: the four assertions and a well-formed pad mask
OccPre ==
  /\ kind = "OccFormer"
  /\ OccAsserts(self, args)
  /\ IsNone(args.pad_mask) \/ PadMaskOk(args.pad_mask)

OccExpectedShape ==
  <<args.track_queries[1], args.track_queries[2], self.pred_horizon,
    self.bev_feature_hw[1], self.bev_feature_hw[2]>>

\* C9 as stated: for every call passing the preconditions, with any grid shape and scales,
\* the forward pass completes with occupancies of shape (N, agents, pred_horizon, H, W).
C9_AnyGridCompletes ==
  (OccPre /\ pc \in {"done", "error"}) =>
    /\ pc = "done"
    /\ The(ret).items[1].shape = OccExpectedShape

\* H_bev and W_bev are multiples of bev_downsmaple_scale * op_attn_scale
GridDivisible ==
  /\ self.bev_feature_hw[1] % (self.bev_downsmaple_scale * self.op_attn_scale) = 0
  /\ self.bev_feature_hw[2] % (self.bev_downsmaple_scale * self.op_attn_scale) = 0

\* C9 amended: when moreover H_bev and W_bev are multiples of
\* bev_downsmaple_scale * op_attn_scale, the forward pass never fails, every timestep
\* yields an (N, agents, H, W) map and the result has shape (N, agents, pred_horizon, H, W).
C9_DivisibleGridShape ==
  (OccPre /\ GridDivisible) =>
    /\ pc # "error"
    /\ \A t \in 1..Len(occupancies) :
         occupancies[t].shape = <<args.track_queries[1], args.track_queries[2],
                                   self.bev_feature_hw[1], self.bev_feature_hw[2]>>
    /\ pc = "done" =>
         /\ The(ret).items[1].shape = OccExpectedShape
         /\ Len(The(ret).items[1].stack) = self.pred_horizon

C9_Witness ==
  /\ OccPre /\ GridDivisible /\ pc = "done"
  /\ self.bev_downsmaple_scale = 2 /\ self.op_attn_scale = 2
  /\ self.pred_horizon = 2 /\ args.track_queries[1] = 2 /\ args.track_queries[2] = 2
  /\ The(ret).items[1].shape = <<2, 2, 2, 4, 4>>

\* C10: when the agent counts of track_queries and motion_queries differ, forward raises
\* at its first assertion: no timestep runs and nothing is returned.
C10_AgentMismatchRaises ==
  (kind = "OccFormer" /\ args.track_queries[2] # args.motion_queries[2] /\ pc # "of_check") =>
    /\ pc = "error" /\ err = Some("AssertionError")
    /\ tidx = 0 /\ occupancies = <<>> /\ IsNone(dense_features) /\ IsNone(sparse_features)
    /\ IsNone(ret)

C10_Witness ==
  /\ kind = "OccFormer" /\ pc = "error"
  /\ args.track_queries[2] = 2 /\ args.motion_queries[2] = 1
  /\ args.motion_queries[3] = self.num_modes
  /\ args.track_queries[3] = EmbedDim /\ args.motion_queries[4] = EmbedDim
  /\ args.bev_features[3] = EmbedDim

\* TrackFormer.forward has generated the reference points
RefPointsBuilt == InTrackForward /\ ~IsNone(ref_points)

\* C11: the number of reference points generated per batch element equals the length of
\* the query set, which is the batch maximum of valid tracks plus max_detections, or
\* max_detections without track queries; every decoder layer is called with as many
\* reference points as queries.
C11_RefPointCount ==
  RefPointsBuilt =>
    LET n_points == ref_points.shape[2] IN
    /\ ref_points.shape[1] = args.bev_features[1]
    /\ n_points = (IF TracksSupplied THEN BatchMaxValid ELSE 0) + self.max_detections
    /\ \A i \in 1..args.bev_features[1] :
         /\ n_points = Len(queries.data[i])
         /\ n_points = Len(padding_mask[i])
    /\ \A k \in 1..Len(calls) : calls[k].ref_points.shape[2] = Len(calls[k].queries.data[1])

C11_Witness ==
  /\ RefPointsBuilt /\ TracksSupplied /\ kind = "TrackFormer"
  /\ args.bev_features[1] = 1
  /\ BatchMaxValid = MaxTracks /\ self.max_detections = MaxDet
  /\ ref_points.shape[2] = MaxTracks + MaxDet
  /\ Len(calls) > 0

\* the dense feature map OccFormer.forward starts from: the BEV features downsampled once
InitialDense ==
  [shape |-> Upsample(<<args.track_queries[1], self.embed_dim, self.bev_feature_hw[1],
                        self.bev_feature_hw[2]>>, 1, self.bev_downsmaple_scale),
   ops |-> <<<<"downsample", 0>>>>]

\* the dense feature map after timesteps 0..t-1: InitialDense through layers 0..t-1
DenseAfter(t) ==
  [shape |-> InitialDense.shape,
   ops |-> InitialDense.ops \o [k \in 1..t |-> <<"layer", k - 1>>]]

\* C12: the timesteps run in the order 0, 1, ..., pred_horizon-1, each once with decoder
\* layer t; timestep 0 starts from the BEV features downsampled once, timestep t >= 1 from
\* the dense output of timestep t-1; the occupancy at index t of the time axis comes from
\* the dense output of timestep t.
C12_TimestepRecurrence ==
  (kind = "OccFormer" /\ ~IsNone(dense_features)) =>
    /\ Len(occ_calls) = tidx /\ Len(occupancies) = tidx /\ tidx <= self.pred_horizon
    /\ The(dense_features) = DenseAfter(tidx)
    /\ \A k \in 1..Len(occ_calls) :
         /\ occ_calls[k].tidx = k - 1
         /\ occ_calls[k].layer = k - 1
         /\ occ_calls[k].dense_in = (IF k = 1 THEN InitialDense ELSE occ_calls[k - 1].dense_out)
         /\ occ_calls[k].dense_in = DenseAfter(k - 1)
         /\ occ_calls[k].dense_out = DenseAfter(k)
         /\ occupancies[k].ops = occ_calls[k].dense_out.ops
    /\ pc = "done" =>
         /\ tidx = self.pred_horizon
         /\ \A t \in 1..self.pred_horizon :
              The(ret).items[1].stack[t].ops = DenseAfter(t).ops

C12_Witness ==
  /\ kind = "OccFormer" /\ pc = "done" /\ self.pred_horizon = MaxHorizon
  /\ Len(occ_calls) = MaxHorizon
  /\ occ_calls[MaxHorizon].dense_in = occ_calls[MaxHorizon - 1].dense_out
  /\ The(ret).items[1].stack[MaxHorizon].ops = DenseAfter(MaxHorizon).ops

\* C13: attention masks are returned iff the module is not in inference mode: outside
\* inference mode every timestep contributes exactly one mask and the returned stack holds
\* pred_horizon masks in timestep order; in inference mode no layer is asked for a mask
\* and the second return value is None.
C13_AttnMasksIffTraining ==
  kind = "OccFormer" =>
    /\ \A k \in 1..Len(occ_calls) :
         /\ occ_calls[k].return_attn_mask = ~self.inference_mode
         /\ IsNone(occ_calls[k].mask) <=> self.inference_mode
    /\ IF self.inference_mode
       THEN all_attn_masks = <<>>
       ELSE /\ Len(all_attn_masks) = Len(occ_calls)
            /\ \A k \in 1..Len(occ_calls) :
                 all_attn_masks[k] = [shape |-> The(occ_calls[k].mask),
                                      ops |-> occ_calls[k].dense_out.ops]
    /\ pc = "done" =>
         /\ The(ret).tuple /\ Len(The(ret).items) = 2
         /\ IF self.inference_mode
            THEN IsNone(The(ret).items[2])
            ELSE /\ ~IsNone(The(ret).items[2])
                 /\ The(The(ret).items[2]).stack = all_attn_masks
                 /\ Len(The(The(ret).items[2]).stack) = self.pred_horizon
                 /\ The(The(ret).items[2]).shape[3] = self.pred_horizon
                 /\ \A t \in 1..self.pred_horizon :
                      The(The(ret).items[2]).stack[t].ops = DenseAfter(t).ops

C13_Witness ==
  /\ kind = "OccFormer" /\ pc = "done" /\ ~self.inference_mode
  /\ self.pred_horizon = MaxHorizon
  /\ ~IsNone(The(ret).items[2])
  /\ Len(The(The(ret).items[2]).stack) = MaxHorizon
  /\ \A k \in 1..MaxHorizon : occ_calls[k].return_attn_mask

\* C14: at both re-injection points of the decoder layer the original detection queries
\* are added, position by position, to the trailing num_detections positions only and the
\* leading num_tracks positions keep their values; the layer's input queries are left
\* unmodified and are the self-attention value and the first residual.
C14_Reinjection ==
  InTrackForward =>
    \A k \in 1..Len(calls) :
      LET c == calls[k].internals
          q == calls[k].queries.data
          og == calls[k].og_det_queries
          num_det == self.max_detections
          num_tracks == calls[k].queries.shape[2] - num_det
      IN /\ calls[k].queries = queries
         /\ c.queries = q /\ c.sa_value = q /\ c.residual1 = q
         /\ c.sa_query = c.q_and_k /\ c.sa_key = c.q_and_k
         /\ c.deform_query = c.aug_out2 /\ c.residual2 = c.out2
         /\ \A i \in 1..Len(q) :
              /\ Len(og[i]) = num_det
              /\ Len(c.q_and_k[i]) = Len(q[i]) /\ Len(c.aug_out2[i]) = Len(q[i])
              /\ Len(c.out2[i]) = Len(q[i])
              /\ \A p \in 1..Len(q[i]) :
                   IF p <= num_tracks
                   THEN /\ c.q_and_k[i][p] = q[i][p]
                        /\ c.aug_out2[i][p] = c.out2[i][p]
                   ELSE /\ c.q_and_k[i][p] = q[i][p] + og[i][p - num_tracks]
                        /\ c.aug_out2[i][p] = c.out2[i][p] + og[i][p - num_tracks]
                        /\ c.q_and_k[i][p] # q[i][p]
                        /\ c.aug_out2[i][p] # c.out2[i][p]

C14_Witness ==
  /\ kind = "TrackFormer" /\ Len(calls) > 0 /\ self.max_detections = 1
  /\ calls[1].queries.data = <<<<11, 13, -1>>, <<22, 0, -1>>>>
  /\ calls[1].internals.q_and_k = <<<<11, 13, -2>>, <<22, 0, -2>>>>
  /\ calls[1].internals.aug_out2 = <<<<110, 120, 129>>, <<210, 220, 229>>>>
  /\ calls[1].internals.sa_value = <<<<11, 13, -1>>, <<22, 0, -1>>>>

\* number of dense positions the attention mask of a decoder layer covers
OccPositions ==
  ((self.bev_feature_hw[1] \div self.bev_downsmaple_scale) \div self.op_attn_scale)
    * ((self.bev_feature_hw[2] \div self.bev_downsmaple_scale) \div self.op_attn_scale)

\* C15: with a pad mask the attention mask is 0 at every (dense position, agent) entry of
\* an agent the pad mask marks False and keeps the computed value at every entry of a valid
\* agent; a pad mask that is not 2-D or not boolean makes the layer call fail with no
\* timestep completed; without a pad mask the attention mask is used as computed.
C15_PadMaskZeroing ==
  kind = "OccFormer" =>
    LET N == args.track_queries[1]
        A == args.track_queries[2]
        computed == ComputedMask(N, OccPositions, A)
    IN
    /\ \A k \in 1..Len(occ_calls) :
         LET attn == The(occ_calls[k].attn) IN
         /\ Len(attn) = N
         /\ \A n \in 1..N :
              /\ Len(attn[n]) = OccPositions
              /\ \A p \in 1..OccPositions :
                   /\ Len(attn[n][p]) = A
                   /\ \A a \in 1..A :
                        IF IsNone(args.pad_mask) \/ The(args.pad_mask).valid[n][a]
                        THEN attn[n][p][a] = computed[n][p][a] /\ attn[n][p][a] # 0
                        ELSE attn[n][p][a] = 0
    /\ (~IsNone(args.pad_mask) /\ ~PadMaskOk(args.pad_mask)) =>
         /\ occ_calls = <<>> /\ occupancies = <<>> /\ all_attn_masks = <<>>
         /\ tidx = 0 /\ pc # "done"
         /\ (pc = "error" /\ GridDivisible) => err = Some("AssertionError")

C15_Witness ==
  /\ kind = "OccFormer" /\ Len(occ_calls) > 0
  /\ args.track_queries[1] = 1 /\ args.track_queries[2] = MaxAgents
  /\ ~IsNone(args.pad_mask)
  /\ The(args.pad_mask).valid[1][1] /\ ~The(args.pad_mask).valid[1][MaxAgents]
  /\ The(occ_calls[1].attn)[1][1][1] = 1011
  /\ The(occ_calls[1].attn)[1][1][MaxAgents] = 0

\* a call with a pad mask of the wrong rank or dtype has failed in the decoder layer
BadPadMaskRejected ==
  /\ kind = "OccFormer" /\ ~IsNone(args.pad_mask) /\ ~PadMaskOk(args.pad_mask)
  /\ GridDivisible /\ pc = "error" /\ err = Some("AssertionError")
====
